---------------------------- MODULE Spec2Model ----------------------------
(***************************************************************************)
(* A model of the Blender -> Universal Robots add-on:                      *)
(*   src/ur_script.py   URScript, the motion-program text builder          *)
(*   src/__init__.py    fix_overrotation, the animation export operator,   *)
(*                      the Robot transport, group_contiguous_segments     *)
(*                                                                         *)
(* Angles are integers in units of 0.06 degree, so that pi = 3000 and the  *)
(* speed limit radians(191) * 1.02 = 194.82 degree/s = 3247 are exact.     *)
(* Coordinates of points are integers in units of 0.001, so that the       *)
(* point tolerance 0.01 is 10 units.                                       *)
(***************************************************************************)
EXTENDS Integers, Sequences, FiniteSets, TLC

VARIABLES
  \* URScript object (src/ur_script.py)
  text,              \* self.text, a sequence of tokens
  indent_level,      \* self.indent_level
  op,                \* the builder call that was made last
  raised,            \* the exception the last call raised, or "none"
  arg_len,           \* len(angles) of the last servoj / movej call, else 0
  \* overrotation correction of one joint's trace (src/__init__.py)
  fps,               \* scene.render.fps
  raw_angles,        \* the raw angles fed to fix_overrotation so far
  corrected_angles,  \* the angles fix_overrotation returned so far
  last_angle,        \* last_joint_angles[0]: <<>> is None, <<a>> is a
  overspeed,         \* TRUE once fix_overrotation raised
  true_angles,       \* the unwrapped angles the raw angles represent
  \* URxExportAnimationOperator.execute and its Robot (src/__init__.py)
  pc,                \* where execute is
  has_error,         \* hasattr(self, 'error')
  loop,              \* self.loop
  frame_index,       \* frame_index of the frame loop
  frame_end,         \* scene.frame_end
  frame_angles,      \* frame_angles
  last_joint_angles, \* last_joint_angles: <<>> is [None] * 6
  converted,         \* what pose_to_ur_joint_angles returned, frame by frame
  error,             \* the exception that ended execute, or "none"
  sock,              \* robot.sock
  wire,              \* the buffers written to the connection
  \* group_contiguous_segments (src/__init__.py)
  segments,          \* the argument
  segments_remaining,
  current_polyline,
  polylines,
  result,            \* the value returned, <<>> before the return
  spc,               \* where group_contiguous_segments is
  \* toolpath_from_polylines (src/__init__.py)
  tp_polylines,      \* the argument
  tp_next,           \* the position of the polyline the for loop takes next
  toolpath,          \* toolpath
  tp_pc,             \* where toolpath_from_polylines is
  \* pose_to_ur_joint_angles called on its own (src/__init__.py)
  pose_bones,        \* the argument, a list of (name, orientation)
  joint_angles,      \* the value returned
  jpc,               \* where pose_to_ur_joint_angles is
  \* one Robot object that is sent to repeatedly (src/__init__.py)
  connect_attempts,  \* calls of connect() so far
  successful_connects, \* calls of connect() that returned
  send_raised,       \* the exception of the last send(), or "none"
  sends              \* calls of send() so far

bvars == <<text, indent_level, op, raised, arg_len>>
cvars == <<fps, raw_angles, corrected_angles, last_angle, overspeed, true_angles>>
evars == <<pc, has_error, loop, frame_index, frame_end, frame_angles,
           last_joint_angles, converted, error, sock, wire>>
svars == <<segments, segments_remaining, current_polyline, polylines, result, spc>>
cvars_rest == <<raw_angles, corrected_angles, last_angle, overspeed, true_angles>>
tvars == <<tp_polylines, tp_next, toolpath, tp_pc>>
jvars == <<pose_bones, joint_angles, jpc>>
rvars == <<connect_attempts, successful_connects, send_raised, sends>>
nvars == <<tvars, jvars, rvars>>
vars == <<bvars, cvars, evars, svars, nvars>>

---------------------------------------------------------------------------
(* Bounds *)

MaxLines == 4        \* lines of text a builder run accumulates
MaxFrames == 3       \* frames of a trace
MaxAngles == 7       \* longest angle sequence a caller passes

---------------------------------------------------------------------------
(* URScript: src/ur_script.py *)

\* Tokens of the text: a kind and a payload of integers.
TAB == <<"\t", <<>>>>
NL == <<"\n", <<>>>>

\* ''.join('\t' for i in range(0, self.indent_level))
RECURSIVE tabs(_)
tabs(n) == IF n <= 0 THEN <<>> ELSE <<TAB>> \o tabs(n - 1)

\* '{0:.5f}'.format(float(v)): the number of 0.00001 steps nearest to v.
\* One angle unit is pi / 3000 = 0.00104720 rad, that is 104.720 steps.
f_to_s(v) ==
  LET steps(x) == (x * 104720 + 500) \div 1000
  IN IF v < 0 THEN 0 - steps(0 - v) ELSE steps(v)

\* '[{}]'.format(','.join([f_to_s(v) for v in vals]))
list_to_array(vals) == [i \in DOMAIN vals |-> f_to_s(vals[i])]

\* URScript(): the object after construction
URScript == [text |-> <<>>, indent_level |-> 0, err |-> "none"]

\* A call on an object that an earlier call's exception has left is not made.
Then(s, r) == IF s.err # "none" THEN s ELSE r

add_line(s, body) ==
  [s EXCEPT !.text = s.text \o tabs(s.indent_level) \o <<body, NL>>]

\* function() that increments before it emits
function_increment_first(s) ==
  Then(s, add_line([s EXCEPT !.indent_level = @ + 1], <<"def", <<>>>>))

function(s) ==
  Then(s, [add_line(s, <<"def", <<>>>>) EXCEPT !.indent_level = @ + 1])

\* end() that emits before it decrements
end_emit_first(s) ==
  Then(s, IF s.indent_level = 0
            THEN [s EXCEPT !.err = "No structure to end"]
            ELSE [add_line(s, <<"end", <<>>>>) EXCEPT !.indent_level = @ - 1])

\* end() without the depth check
end_unchecked(s) ==
  Then(s, add_line([s EXCEPT !.indent_level = @ - 1], <<"end", <<>>>>))

end(s) ==
  Then(s, IF s.indent_level = 0
            THEN [s EXCEPT !.err = "No structure to end"]
            ELSE add_line([s EXCEPT !.indent_level = @ - 1], <<"end", <<>>>>))

set_tool_digital_out(s, index, state) ==
  Then(s, add_line(s, <<"set_tool_digital_out", <<index, IF state THEN 1 ELSE 0>>>>))

while_loop(s) ==
  Then(s, [add_line(s, <<"while", <<>>>>) EXCEPT !.indent_level = @ + 1])

servoj(s, angles) ==
  Then(s, IF Len(angles) # 6
            THEN [s EXCEPT !.err = "Incorrect number of joint angles"]
            ELSE add_line(s, <<"servoj", list_to_array(angles)>>))

\* movej() that only rejects too few angles
movej_at_least_6(s, angles) ==
  Then(s, IF Len(angles) < 6
            THEN [s EXCEPT !.err = "Incorrect number of joint angles"]
            ELSE add_line(s, <<"movej", list_to_array(angles)>>))

movej(s, angles) ==
  Then(s, IF Len(angles) # 6
            THEN [s EXCEPT !.err = "Incorrect number of joint angles"]
            ELSE add_line(s, <<"movej", list_to_array(angles)>>))

---------------------------------------------------------------------------
(* Reading the text back as lines *)

LineCount(t) == Cardinality({i \in DOMAIN t : t[i] = NL})

\* the position of the k-th newline of t (0 for k = 0)
RECURSIVE NlPos(_, _)
NlPos(t, k) ==
  IF k = 0 THEN 0
  ELSE LET p == NlPos(t, k - 1)
       IN CHOOSE i \in (p + 1)..Len(t) :
            t[i] = NL /\ \A j \in (p + 1)..(i - 1) : t[j] # NL

\* the k-th line of t without its newline
Line(t, k) == SubSeq(t, NlPos(t, k - 1) + 1, NlPos(t, k) - 1)

\* the number of leading tabs of a line
RECURSIVE Indent(_)
Indent(l) == IF l # <<>> /\ Head(l) = TAB THEN 1 + Indent(Tail(l)) ELSE 0

\* the statement keyword of a line
Keyword(l) == l[Indent(l) + 1][1]

LastLine(t) == Line(t, LineCount(t))

---------------------------------------------------------------------------
(* The builder driven by an arbitrary caller *)

\* the angle sequences a caller passes: any length up to MaxAngles
AngleLists == {[i \in 1..n |-> 0] : n \in 0..MaxAngles}

Builder == [text |-> text, indent_level |-> indent_level, err |-> "none"]

Call(name, n, s) ==
  /\ LineCount(text) < MaxLines
  /\ op' = name
  /\ arg_len' = n
  /\ text' = s.text
  /\ indent_level' = s.indent_level
  /\ raised' = s.err
  /\ UNCHANGED <<cvars, evars, svars, nvars>>

CallFunction == Call("function", 0, function(Builder))
CallEnd == Call("end", 0, end(Builder))
CallWhileLoop == Call("while_loop", 0, while_loop(Builder))
CallSetToolDigitalOut ==
  \E state \in BOOLEAN : Call("set_tool_digital_out", 0, set_tool_digital_out(Builder, 0, state))
CallServoj == \E angles \in AngleLists : Call("servoj", Len(angles), servoj(Builder, angles))
CallMovej == \E angles \in AngleLists : Call("movej", Len(angles), movej(Builder, angles))

\* a caller reads script.text; nothing guards the read
ReadText ==
  /\ op' = "text"
  /\ raised' = "none"
  /\ arg_len' = 0
  /\ UNCHANGED <<text, indent_level, cvars, evars, svars, nvars>>

InitCorrectorIdle ==
  /\ raw_angles = <<>>
  /\ corrected_angles = <<>>
  /\ last_angle = <<>>
  /\ overspeed = FALSE
  /\ true_angles = <<>>

InitExportIdle ==
  /\ pc = "idle"
  /\ has_error = FALSE
  /\ loop = FALSE
  /\ frame_index = 1
  /\ frame_end = 1
  /\ frame_angles = <<>>
  /\ last_joint_angles = <<>>
  /\ converted = <<>>
  /\ error = "none"
  /\ sock = "None"
  /\ wire = <<>>

InitToolpathIdle ==
  /\ tp_polylines = <<>>
  /\ tp_next = 1
  /\ toolpath = <<>>
  /\ tp_pc = "idle"

InitConverterIdle ==
  /\ pose_bones = <<>>
  /\ joint_angles = <<>>
  /\ jpc = "idle"

InitRobotIdle ==
  /\ connect_attempts = 0
  /\ successful_connects = 0
  /\ send_raised = "none"
  /\ sends = 0

InitStitcherIdle ==
  /\ segments = <<>>
  /\ segments_remaining = <<>>
  /\ current_polyline = <<>>
  /\ polylines = <<>>
  /\ result = <<>>
  /\ spc = "idle"

InitBuilder ==
  /\ text = URScript.text
  /\ indent_level = URScript.indent_level
  /\ op = "new"
  /\ raised = "none"
  /\ arg_len = 0
  /\ fps = 1
  /\ InitCorrectorIdle
  /\ InitExportIdle
  /\ InitStitcherIdle
  /\ InitToolpathIdle
  /\ InitConverterIdle
  /\ InitRobotIdle

NextBuilder ==
  \/ CallFunction
  \/ CallEnd
  \/ CallWhileLoop
  \/ CallSetToolDigitalOut
  \/ CallServoj
  \/ CallMovej
  \/ ReadText

SpecBuilder == InitBuilder /\ [][NextBuilder]_vars

---------------------------------------------------------------------------
(* Claims about the builder, checked under SpecBuilder *)

IsPrefix(a, b) == Len(a) <= Len(b) /\ SubSeq(b, 1, Len(a)) = a

\* the call just made appended exactly one line to the text
AppendsOneLine ==
  /\ IsPrefix(text, text')
  /\ LineCount(text') = LineCount(text) + 1
  /\ text'[Len(text')] = NL

\* C3 as stated: a successful end() at depth d > 0 emits its `end` line
\* indented at depth d, the depth before decrementing, and then sets the
\* depth to d - 1.
C3_EndAtDepthBeforeDecrement ==
  [][(op' = "end" /\ raised' = "none")
       => /\ AppendsOneLine
          /\ Keyword(LastLine(text')) = "end"
          /\ Indent(LastLine(text')) = indent_level
          /\ indent_level' = indent_level - 1]_vars

\* C3 amended: a successful end() at depth d > 0 first sets the depth to
\* d - 1 and then emits its `end` line indented at d - 1, one unit less
\* than the statements of the block body it closes.
C3_EndAtDepthAfterDecrement ==
  [][(op' = "end" /\ raised' = "none")
       => /\ indent_level > 0
          /\ AppendsOneLine
          /\ Keyword(LastLine(text')) = "end"
          /\ Indent(LastLine(text')) = indent_level - 1
          /\ indent_level' = indent_level - 1]_vars

\* a block body statement at depth 2 has been closed by an `end`
C3_Witness ==
  /\ op = "end" /\ raised = "none" /\ indent_level = 1
  /\ LineCount(text) >= 4
  /\ Indent(Line(text, LineCount(text) - 1)) = 2
  /\ Keyword(Line(text, LineCount(text) - 1)) \in {"movej", "servoj", "set_tool_digital_out"}

C5_TextOnlyAtDepthZero ==
  (op = "text" /\ indent_level # 0) => raised # "none"

\* C6: movej and servoj raise for every angle sequence whose length is not
\* 6, appending nothing and leaving the depth unchanged; with 6 angles each
\* appends exactly one statement line.
C6_ArityChecked ==
  [][op' \in {"movej", "servoj"}
       => IF arg_len' # 6
            THEN raised' # "none" /\ text' = text /\ indent_level' = indent_level
            ELSE /\ raised' = "none"
                 /\ AppendsOneLine
                 /\ Keyword(LastLine(text')) = op'
                 /\ Len(LastLine(text')[Indent(LastLine(text')) + 1][2]) = 6
                 /\ indent_level' = indent_level]_vars

\* movej was refused a sequence of 7 angles inside an open block
C6_Witness ==
  op = "movej" /\ arg_len = 7 /\ raised # "none" /\ indent_level = 1 /\ text # <<>>

---------------------------------------------------------------------------
(* Overrotation correction: src/__init__.py, fix_overrotation *)

Pi == 3000              \* math.pi, in units of 0.06 degree
SpeedLimit == 3247      \* math.radians(191) * 1.02, in units of 0.06 degree / s

Abs(x) == IF x < 0 THEN 0 - x ELSE x

under_speedlimit(current_speed) == current_speed < SpeedLimit

\* prev is <<>> for None and <<a>> for the angle a
fix_overrotation(scene_fps, current_angle, prev) ==
  IF prev = <<>>
    THEN [raised |-> FALSE, angle |-> current_angle]
    ELSE LET current_speed == Abs(current_angle - prev[1]) * scene_fps
         IN IF ~under_speedlimit(current_speed)
              THEN IF prev[1] < 0 /\ current_angle > 0
                     THEN [raised |-> FALSE, angle |-> -2 * Pi + current_angle]
                   ELSE IF prev[1] > 0 /\ current_angle < 0
                     THEN [raised |-> FALSE, angle |-> 2 * Pi + current_angle]
                   ELSE [raised |-> TRUE, angle |-> 0]
              ELSE [raised |-> FALSE, angle |-> current_angle]

\* scene.render.fps
FpsValues == {1, 2}

\* raw angles of one joint: every 30 degrees of [-pi, pi], and the values
\* that put a speed exactly on the limit
RawAngles == {k * 500 : k \in -6..6} \cup {-3247, -247, 247, 3247}

\* a frame that carries the raw angle, not the corrected one, to the next
Correct_carry_raw(a) ==
  LET r == fix_overrotation(fps, a, last_angle)
  IN /\ raw_angles' = Append(raw_angles, a)
     /\ IF r.raised
          THEN /\ overspeed' = TRUE
               /\ UNCHANGED <<corrected_angles, last_angle>>
          ELSE /\ corrected_angles' = Append(corrected_angles, r.angle)
               /\ last_angle' = <<a>>
               /\ UNCHANGED overspeed

\* One frame of the export loop for the corrected joint: the raw angle a
\* is corrected against the angle carried from the frame before, stored,
\* and carried to the next frame.
Correct(a) ==
  LET r == fix_overrotation(fps, a, last_angle)
  IN /\ raw_angles' = Append(raw_angles, a)
     /\ IF r.raised
          THEN /\ overspeed' = TRUE
               /\ UNCHANGED <<corrected_angles, last_angle>>
          ELSE /\ corrected_angles' = Append(corrected_angles, r.angle)
               /\ last_angle' = <<r.angle>>
               /\ UNCHANGED overspeed

CorrectFrame ==
  /\ ~overspeed
  /\ Len(raw_angles) < MaxFrames
  /\ \E a \in RawAngles : Correct(a)
  /\ UNCHANGED <<fps, true_angles, bvars, evars, svars, nvars>>

InitBuilderIdle ==
  /\ text = <<>>
  /\ indent_level = 0
  /\ op = "new"
  /\ raised = "none"
  /\ arg_len = 0

InitCorrector ==
  /\ fps \in FpsValues
  /\ raw_angles = <<>>
  /\ corrected_angles = <<>>
  /\ last_angle = <<>>
  /\ overspeed = FALSE
  /\ true_angles = <<>>
  /\ InitBuilderIdle
  /\ InitExportIdle
  /\ InitStitcherIdle
  /\ InitToolpathIdle
  /\ InitConverterIdle
  /\ InitRobotIdle

NextCorrector == CorrectFrame

SpecCorrector == InitCorrector /\ [][NextCorrector]_vars

---------------------------------------------------------------------------
(* The corrector fed with the wrapped representation of a true trace *)

\* the representation of the angle t in (-pi, pi]
RECURSIVE wrap(_)
wrap(t) ==
  IF t > Pi THEN wrap(t - 2 * Pi)
  ELSE IF t <= 0 - Pi THEN wrap(t + 2 * Pi)
  ELSE t

\* true angles: every 30 degrees of [-3 pi, 3 pi]
TrueAngles == {k * 500 : k \in -18..18}

\* the true trace starts in (-pi, pi] and moves no faster than the limit
Admissible(t) ==
  IF true_angles = <<>>
    THEN 0 - Pi < t /\ t <= Pi
    ELSE Abs(t - true_angles[Len(true_angles)]) * fps <= SpeedLimit

WrapFrame ==
  /\ ~overspeed
  /\ Len(raw_angles) < MaxFrames
  /\ \E t \in TrueAngles :
       /\ Admissible(t)
       /\ true_angles' = Append(true_angles, t)
       /\ Correct(wrap(t))
  /\ UNCHANGED <<fps, bvars, evars, svars, nvars>>

NextWrap == WrapFrame

SpecWrap == InitCorrector /\ [][NextWrap]_vars

---------------------------------------------------------------------------
(* Claims about the corrector *)

\* the angle frame i was corrected against
Prev(i) == corrected_angles[i - 1]

\* the speed fix_overrotation computed for frame i
Speed(i) == Abs(raw_angles[i] - Prev(i)) * fps

\* C1 as stated (SpecCorrector): a correction that completes without an
\* error returns as many angles as it was given, and every consecutive pair
\* of corrected angles is within the speed limit.
C1_CorrectedWithinLimit ==
  /\ ~overspeed => Len(corrected_angles) = Len(raw_angles)
  /\ \A i \in 2..Len(corrected_angles) :
       Abs(corrected_angles[i] - corrected_angles[i - 1]) * fps <= SpeedLimit

\* C7 as stated (SpecCorrector): the first frame passes through unchanged,
\* and every later frame whose speed is less than or equal to the limit is
\* returned unchanged without an error.
C7_AtOrUnderLimitUnchanged ==
  /\ Len(corrected_angles) >= 1 => corrected_angles[1] = raw_angles[1]
  /\ \A i \in 2..Len(raw_angles) :
       Speed(i) <= SpeedLimit
         => i <= Len(corrected_angles) /\ corrected_angles[i] = raw_angles[i]

\* C8 (SpecCorrector): a frame whose speed against the previous corrected
\* angle exceeds the limit is returned as current - 2 pi when previous < 0
\* and current > 0, as current + 2 pi when previous > 0 and current < 0,
\* and otherwise raises and returns no angle.
C8_OverLimit ==
  \A i \in 2..Len(raw_angles) :
    Speed(i) > SpeedLimit
      => IF Prev(i) < 0 /\ raw_angles[i] > 0
           THEN i <= Len(corrected_angles)
                /\ corrected_angles[i] = raw_angles[i] - 2 * Pi
         ELSE IF Prev(i) > 0 /\ raw_angles[i] < 0
           THEN i <= Len(corrected_angles)
                /\ corrected_angles[i] = raw_angles[i] + 2 * Pi
         ELSE overspeed /\ i = Len(raw_angles) /\ Len(corrected_angles) = i - 1

\* a frame was corrected against a previous angle that itself had been
\* corrected, where the previous raw angle would have given another result
C8_Witness ==
  \E i \in 3..Len(corrected_angles) :
    /\ corrected_angles[i - 1] # raw_angles[i - 1]
    /\ corrected_angles[i] = raw_angles[i] - 2 * Pi
    /\ Abs(raw_angles[i] - raw_angles[i - 1]) * fps < SpeedLimit

\* C9 as stated (SpecWrap): the corrector applied to the wrapped
\* representation of an admissible true trace raises no error and returns
\* the true trace.
C9_WrapRoundTrip ==
  ~overspeed /\ corrected_angles = true_angles

---------------------------------------------------------------------------
(* Joint angle conversion: src/__init__.py, pose_to_ur_joint_angles *)

joint_names == <<"Base", "Shoulder", "Elbow", "Wrist1", "Wrist2", "Wrist3">>

\* the revolute axis of each joint, as a position in (x, y, z)
axis_index ==
  [n \in {joint_names[i] : i \in 1..6} |->
     IF n \in {"Base", "Wrist2"} THEN 3 ELSE 2]

\* (multiplier, offset) of each joint; -pi / 2 is -1500
axis_correction ==
  [n \in {joint_names[i] : i \in 1..6} |->
     IF n = "Base" THEN <<1, 0>>
     ELSE IF n \in {"Shoulder", "Wrist1"} THEN <<-1, 0 - (Pi \div 2)>>
     ELSE <<-1, 0>>]

\* a conversion that takes 0 for the orientation of a missing bone
pose_to_ur_joint_angles_default(bones) ==
  [raised |-> FALSE,
   angles |-> [i \in 1..6 |->
     LET name == joint_names[i]
         bl_angle == IF name \in DOMAIN bones THEN bones[name][axis_index[name]] ELSE 0
     IN axis_correction[name][1] * bl_angle + axis_correction[name][2]]]

\* bones is a function from the names of the bones to their local
\* orientations (x, y, z); a missing name is a KeyError
pose_to_ur_joint_angles(bones) ==
  IF \E i \in 1..6 : joint_names[i] \notin DOMAIN bones
    THEN [raised |-> TRUE, angles |-> <<>>]
    ELSE [raised |-> FALSE,
          angles |-> [i \in 1..6 |->
            LET name == joint_names[i]
                bl_angle == bones[name][axis_index[name]]
            IN axis_correction[name][1] * bl_angle + axis_correction[name][2]]]

---------------------------------------------------------------------------
(* Robot: src/__init__.py *)

\* Robot(host, port)
Robot == [sock |-> "None", sent |-> <<>>, err |-> "none"]

\* connect(): self.sock is the new socket before connect() is tried on it
connect(r, reachable) ==
  IF reachable
    THEN [r EXCEPT !.sock = "connected"]
    ELSE [r EXCEPT !.sock = "unconnected", !.err = "connect failed"]

\* send(data): sendall on a socket that is not connected raises
send(r, data, reachable) ==
  LET c == IF r.sock = "None" THEN connect(r, reachable) ELSE r
  IN IF c.err # "none" THEN c
     ELSE IF c.sock = "connected"
       THEN [c EXCEPT !.sent = Append(@, data)]
       ELSE [c EXCEPT !.err = "send failed"]

---------------------------------------------------------------------------
(* The animation export: src/__init__.py, URxExportAnimationOperator.execute *)

DigitalOutFrame == 150   \* the frame at which the tool output is set

\* the armature's pose at a frame: the Base turned to b, the other joints
\* to o, with the bones named in present
Pose(b, o, present) ==
  [n \in present |-> IF n = "Base" THEN <<10, 20, b>> ELSE <<o + 10, o, o + 20>>]

AllJoints == {joint_names[i] : i \in 1..6}

Poses ==
  {Pose(b, o, present) :
     b \in {-2500, -500, 500, 2500},
     o \in {0, 2000},
     present \in {AllJoints, AllJoints \cup {"Tool"},
                  AllJoints \ {"Base"}, AllJoints \ {"Wrist3"}}}

\* the servoj statements of the frames from index i (counted from 0) on
RECURSIVE servo_frames(_, _, _)
servo_frames(s, frames, i) ==
  IF i >= Len(frames) THEN s
  ELSE LET s1 == IF i = DigitalOutFrame THEN set_tool_digital_out(s, 0, TRUE) ELSE s
       IN servo_frames(servoj(s1, frames[i + 1]), frames, i + 1)

\* a script whose while block is left open
build_script_open_while(frames, looping) ==
  LET s1 == function(URScript)
      s2 == IF frames = <<>> THEN [s1 EXCEPT !.err = "IndexError"]
            ELSE movej(s1, frames[1])
      s3 == IF looping THEN while_loop(s2) ELSE s2
      s4 == set_tool_digital_out(s3, 0, FALSE)
      s5 == servo_frames(s4, frames, 0)
      s6 == set_tool_digital_out(s5, 0, FALSE)
  IN end(s6)

\* the script of lines 248-270; frame_angles[0] of no frames is an IndexError
build_script(frames, looping) ==
  LET s1 == function(URScript)
      s2 == IF frames = <<>> THEN [s1 EXCEPT !.err = "IndexError"]
            ELSE movej(s1, frames[1])
      s3 == IF looping THEN while_loop(s2) ELSE s2
      s4 == set_tool_digital_out(s3, 0, FALSE)
      s5 == servo_frames(s4, frames, 0)
      s6 == set_tool_digital_out(s5, 0, FALSE)
      s7 == IF looping THEN end(s6) ELSE s6
  IN end(s7)

\* execute is left by the exception e
Raise(e) == pc' = "raised" /\ error' = e

\* lines 210-212
ExportBegin ==
  /\ pc = "start"
  /\ pc' = IF has_error THEN "cancelled" ELSE "frames"
  /\ UNCHANGED <<has_error, loop, frame_index, frame_end, frame_angles,
                 last_joint_angles, converted, error, sock, wire, fps, text,
                 indent_level>>

\* a frame loop that goes on after an exception
ExportFrameSwallow ==
  /\ pc = "frames"
  /\ frame_index < frame_end
  /\ \E bones \in Poses :
       LET p == pose_to_ur_joint_angles(bones)
           prev == IF last_joint_angles = <<>> THEN <<>> ELSE <<last_joint_angles[1]>>
           f == IF p.raised THEN [raised |-> TRUE, angle |-> 0]
                ELSE fix_overrotation(fps, p.angles[1], prev)
       IN /\ converted' = IF p.raised THEN converted ELSE Append(converted, p.angles)
          /\ IF p.raised
               THEN /\ error' = "KeyError"
                    /\ UNCHANGED <<pc, frame_angles, last_joint_angles>>
             ELSE IF f.raised
               THEN /\ error' = "Over speed limit"
                    /\ frame_angles' = Append(frame_angles, p.angles)
                    /\ last_joint_angles' = p.angles
                    /\ UNCHANGED pc
             ELSE /\ frame_angles' = Append(frame_angles, [p.angles EXCEPT ![1] = f.angle])
                  /\ last_joint_angles' = [p.angles EXCEPT ![1] = f.angle]
                  /\ UNCHANGED <<pc, error>>
  /\ frame_index' = frame_index + 1
  /\ UNCHANGED <<has_error, loop, frame_end, sock, wire, fps, text, indent_level>>

\* a frame loop that corrects every joint, not only the first
ExportFrameAllJoints ==
  /\ pc = "frames"
  /\ frame_index < frame_end
  /\ \E bones \in Poses :
       LET p == pose_to_ur_joint_angles(bones)
           prev(i) == IF last_joint_angles = <<>> THEN <<>> ELSE <<last_joint_angles[i]>>
           f == [i \in 1..6 |->
                   IF p.raised THEN [raised |-> TRUE, angle |-> 0]
                   ELSE fix_overrotation(fps, p.angles[i], prev(i))]
       IN /\ converted' = IF p.raised THEN converted ELSE Append(converted, p.angles)
          /\ IF p.raised
               THEN Raise("KeyError") /\ UNCHANGED <<frame_angles, last_joint_angles>>
             ELSE IF \E i \in 1..6 : f[i].raised
               THEN Raise("Over speed limit") /\ UNCHANGED <<frame_angles, last_joint_angles>>
             ELSE /\ frame_angles' = Append(frame_angles, [i \in 1..6 |-> f[i].angle])
                  /\ last_joint_angles' = [i \in 1..6 |-> f[i].angle]
                  /\ UNCHANGED <<pc, error>>
  /\ frame_index' = frame_index + 1
  /\ UNCHANGED <<has_error, loop, frame_end, sock, wire, fps, text, indent_level>>

\* lines 227-238: one frame of the loop
ExportFrame ==
  /\ pc = "frames"
  /\ frame_index < frame_end
  /\ \E bones \in Poses :
       LET p == pose_to_ur_joint_angles(bones)
           prev == IF last_joint_angles = <<>> THEN <<>> ELSE <<last_joint_angles[1]>>
           f == IF p.raised THEN [raised |-> TRUE, angle |-> 0]
                ELSE fix_overrotation(fps, p.angles[1], prev)
       IN /\ converted' = IF p.raised THEN converted ELSE Append(converted, p.angles)
          /\ IF p.raised
               THEN Raise("KeyError") /\ UNCHANGED <<frame_angles, last_joint_angles>>
             ELSE IF f.raised
               THEN Raise("Over speed limit") /\ UNCHANGED <<frame_angles, last_joint_angles>>
             ELSE /\ frame_angles' = Append(frame_angles, [p.angles EXCEPT ![1] = f.angle])
                  /\ last_joint_angles' = [p.angles EXCEPT ![1] = f.angle]
                  /\ UNCHANGED <<pc, error>>
  /\ frame_index' = frame_index + 1
  /\ UNCHANGED <<has_error, loop, frame_end, sock, wire, fps, text, indent_level>>

\* lines 246-270: the script is built once the frame loop has ended
ExportBuild ==
  /\ pc = "frames"
  /\ frame_index >= frame_end
  /\ LET s == build_script(frame_angles, loop)
     IN /\ text' = s.text
        /\ indent_level' = s.indent_level
        /\ IF s.err # "none" THEN Raise(s.err) ELSE pc' = "built" /\ UNCHANGED error
  /\ UNCHANGED <<has_error, loop, frame_index, frame_end, frame_angles,
                 last_joint_angles, converted, sock, wire, fps>>

\* lines 275-288: a new Robot sends the text
ExportSend ==
  /\ pc = "built"
  /\ \E reachable \in BOOLEAN :
       LET r == send(Robot, text, reachable)
       IN /\ sock' = r.sock
          /\ wire' = r.sent
          /\ IF r.err # "none" THEN Raise(r.err) ELSE pc' = "finished" /\ UNCHANGED error
  /\ UNCHANGED <<has_error, loop, frame_index, frame_end, frame_angles,
                 last_joint_angles, converted, fps, text, indent_level>>

InitExport ==
  /\ pc = "start"
  /\ has_error \in BOOLEAN
  /\ loop \in BOOLEAN
  /\ fps \in FpsValues
  /\ frame_index = 1
  /\ frame_end \in 1..(MaxFrames + 1)
  /\ frame_angles = <<>>
  /\ last_joint_angles = <<>>
  /\ converted = <<>>
  /\ error = "none"
  /\ sock = "None"
  /\ wire = <<>>
  /\ InitBuilderIdle
  /\ InitCorrectorIdle
  /\ InitStitcherIdle
  /\ InitToolpathIdle
  /\ InitConverterIdle
  /\ InitRobotIdle

NextExport ==
  \/ ExportBegin /\ UNCHANGED <<op, raised, arg_len, cvars_rest, svars, nvars>>
  \/ ExportFrame /\ UNCHANGED <<op, raised, arg_len, cvars_rest, svars, nvars>>
  \/ ExportBuild /\ UNCHANGED <<op, raised, arg_len, cvars_rest, svars, nvars>>
  \/ ExportSend /\ UNCHANGED <<op, raised, arg_len, cvars_rest, svars, nvars>>

SpecExport == InitExport /\ [][NextExport]_vars

---------------------------------------------------------------------------
(* Claims about the export *)

CoreErrors ==
  {"KeyError", "Over speed limit", "IndexError",
   "Incorrect number of joint angles", "No structure to end"}

\* the text is a complete program of n frames
CompleteProgram(t, n) ==
  /\ LineCount(t) >= 2
  /\ Line(t, 1) = <<<<"def", <<>>>>>>
  /\ LastLine(t) = <<<<"end", <<>>>>>>
  /\ Cardinality({k \in 1..LineCount(t) : Keyword(Line(t, k)) = "servoj"}) = n

\* C2 (SpecExport): a run in which a core error occurred has sent nothing;
\* whatever was sent was sent once, after every frame of the range had been
\* converted and corrected, and is the complete program.
C2_NoSendOnCoreError ==
  /\ error \in CoreErrors => wire = <<>>
  /\ wire # <<>>
       => /\ error = "none"
          /\ Len(frame_angles) = frame_end - 1
          /\ indent_level = 0
          /\ wire = <<text>>
          /\ CompleteProgram(wire[1], frame_end - 1)

\* an overspeed without a sign crossing ended the export at a later frame
C2_Witness ==
  /\ pc = "raised" /\ error = "Over speed limit"
  /\ Len(frame_angles) >= 1
  /\ wire = <<>>

---------------------------------------------------------------------------
(* Segment stitching: src/__init__.py, group_contiguous_segments *)

Epsilon == 10    \* the tolerance 0.01 of close_enough, in units of 0.001

\* the square of distance(a, b)
distance_squared(a, b) ==
  (b[1] - a[1]) * (b[1] - a[1]) + (b[2] - a[2]) * (b[2] - a[2])
    + (b[3] - a[3]) * (b[3] - a[3])

\* distance(a, b) < 0.01
close_enough(a, b) == distance_squared(a, b) < Epsilon * Epsilon

\* the body of the for loop that starts a polyline with one point only
splice_seed_start_only(acc, segment) ==
  LET start == segment[1]
      end_point == segment[2]
      cur == acc.current
  IN IF Len(cur) = 0
       THEN [acc EXCEPT !.current = <<start>>, !.extended = TRUE]
     ELSE IF close_enough(cur[Len(cur)], start)
       THEN [acc EXCEPT !.current = Append(cur, end_point), !.extended = TRUE]
     ELSE IF close_enough(cur[Len(cur)], end_point)
       THEN [acc EXCEPT !.current = Append(cur, start), !.extended = TRUE]
     ELSE IF close_enough(cur[1], start)
       THEN [acc EXCEPT !.current = <<end_point>> \o cur, !.extended = TRUE]
     ELSE IF close_enough(cur[1], end_point)
       THEN [acc EXCEPT !.current = <<start>> \o cur, !.extended = TRUE]
     ELSE [acc EXCEPT !.remain = Append(@, segment)]

\* the body of the for loop that splices at the front with the wrong endpoint
splice_wrong_front(acc, segment) ==
  LET start == segment[1]
      end_point == segment[2]
      cur == acc.current
  IN IF Len(cur) = 0
       THEN [acc EXCEPT !.current = <<start, end_point>>, !.extended = TRUE]
     ELSE IF close_enough(cur[Len(cur)], start)
       THEN [acc EXCEPT !.current = Append(cur, end_point), !.extended = TRUE]
     ELSE IF close_enough(cur[Len(cur)], end_point)
       THEN [acc EXCEPT !.current = Append(cur, start), !.extended = TRUE]
     ELSE IF close_enough(cur[1], start)
       THEN [acc EXCEPT !.current = <<start>> \o cur, !.extended = TRUE]
     ELSE IF close_enough(cur[1], end_point)
       THEN [acc EXCEPT !.current = <<end_point>> \o cur, !.extended = TRUE]
     ELSE [acc EXCEPT !.remain = Append(@, segment)]

\* the body of the for loop that only ever extends the polyline at its back
splice_back_only(acc, segment) ==
  LET start == segment[1]
      end_point == segment[2]
      cur == acc.current
  IN IF Len(cur) = 0
       THEN [acc EXCEPT !.current = <<start, end_point>>, !.extended = TRUE]
     ELSE IF close_enough(cur[Len(cur)], start)
       THEN [acc EXCEPT !.current = Append(cur, end_point), !.extended = TRUE]
     ELSE IF close_enough(cur[Len(cur)], end_point)
       THEN [acc EXCEPT !.current = Append(cur, start), !.extended = TRUE]
     ELSE [acc EXCEPT !.remain = Append(@, segment)]

\* lines 389-414, the body of the for loop: acc holds current_polyline,
\* segments_that_will_remain and extended_this_polyline
splice(acc, segment) ==
  LET start == segment[1]
      end_point == segment[2]
      cur == acc.current
  IN IF Len(cur) = 0
       THEN [acc EXCEPT !.current = <<start, end_point>>, !.extended = TRUE]
     ELSE IF close_enough(cur[Len(cur)], start)
       THEN [acc EXCEPT !.current = Append(cur, end_point), !.extended = TRUE]
     ELSE IF close_enough(cur[Len(cur)], end_point)
       THEN [acc EXCEPT !.current = Append(cur, start), !.extended = TRUE]
     ELSE IF close_enough(cur[1], start)
       THEN [acc EXCEPT !.current = <<end_point>> \o cur, !.extended = TRUE]
     ELSE IF close_enough(cur[1], end_point)
       THEN [acc EXCEPT !.current = <<start>> \o cur, !.extended = TRUE]
     ELSE [acc EXCEPT !.remain = Append(@, segment)]

\* lines 388-414, the for loop over segments_remaining from position i on
RECURSIVE scan(_, _, _)
scan(segs, i, acc) ==
  IF i > Len(segs) THEN acc ELSE scan(segs, i + 1, splice(acc, segs[i]))

\* lines 367-377
StitchBegin ==
  /\ spc = "start"
  /\ IF Len(segments) <= 1
       THEN /\ result' = segments
            /\ spc' = "done"
            /\ UNCHANGED <<segments_remaining, current_polyline, polylines>>
       ELSE /\ polylines' = <<>>
            /\ current_polyline' = <<>>
            /\ segments_remaining' = segments
            /\ spc' = "loop"
            /\ UNCHANGED result
  /\ UNCHANGED segments

\* a pass that closes the polyline off without starting a new one
StitchPassKeepsCurrent ==
  /\ spc = "loop"
  /\ Len(segments_remaining) > 0
  /\ LET r == scan(segments_remaining, 1,
                   [current |-> current_polyline, remain |-> <<>>, extended |-> FALSE])
     IN IF ~r.extended
          THEN /\ polylines' = Append(polylines, r.current)
               /\ UNCHANGED <<current_polyline, segments_remaining>>
          ELSE /\ segments_remaining' = r.remain
               /\ current_polyline' = r.current
               /\ UNCHANGED polylines
  /\ UNCHANGED <<segments, result, spc>>

\* lines 379-421: one pass of the while loop
StitchPass ==
  /\ spc = "loop"
  /\ Len(segments_remaining) > 0
  /\ LET r == scan(segments_remaining, 1,
                   [current |-> current_polyline, remain |-> <<>>, extended |-> FALSE])
     IN IF ~r.extended
          THEN /\ polylines' = Append(polylines, r.current)
               /\ current_polyline' = <<>>
               /\ UNCHANGED segments_remaining
          ELSE /\ segments_remaining' = r.remain
               /\ current_polyline' = r.current
               /\ UNCHANGED polylines
  /\ UNCHANGED <<segments, result, spc>>

\* a return that leaves the open polyline behind
StitchReturnDropsLast ==
  /\ spc = "loop"
  /\ Len(segments_remaining) = 0
  /\ result' = polylines
  /\ spc' = "done"
  /\ UNCHANGED <<segments, segments_remaining, current_polyline, polylines>>

\* lines 425-428
StitchReturn ==
  /\ spc = "loop"
  /\ Len(segments_remaining) = 0
  /\ result' = IF Len(current_polyline) > 0
                 THEN Append(polylines, current_polyline) ELSE polylines
  /\ spc' = "done"
  /\ UNCHANGED <<segments, segments_remaining, current_polyline, polylines>>

\* the corners of the unit square, and a point 0.005 away from the first
Points ==
  {<<0, 0, 0>>, <<1000, 0, 0>>, <<1000, 1000, 0>>, <<0, 1000, 0>>, <<5, 0, 0>>}

\* mesh edges: two different vertices, in either order
Segments == {<<p, q>> : p, q \in Points} \ {<<p, p>> : p \in Points}

MaxSegments == 3     \* segments of an input

RECURSIVE SeqsUpTo(_, _)
SeqsUpTo(S, n) ==
  IF n = 0 THEN {<<>>}
  ELSE LET shorter == SeqsUpTo(S, n - 1)
       IN shorter \cup {Append(q, x) : q \in {t \in shorter : Len(t) = n - 1}, x \in S}

InitStitcher ==
  /\ segments \in SeqsUpTo(Segments, MaxSegments)
  /\ segments_remaining = <<>>
  /\ current_polyline = <<>>
  /\ polylines = <<>>
  /\ result = <<>>
  /\ spc = "start"
  /\ fps = 1
  /\ InitBuilderIdle
  /\ InitCorrectorIdle
  /\ InitExportIdle
  /\ InitToolpathIdle
  /\ InitConverterIdle
  /\ InitRobotIdle

NextStitcher ==
  \/ StitchBegin /\ UNCHANGED <<bvars, cvars, evars, nvars>>
  \/ StitchPass /\ UNCHANGED <<bvars, cvars, evars, nvars>>
  \/ StitchReturn /\ UNCHANGED <<bvars, cvars, evars, nvars>>

SpecStitcher == InitStitcher /\ [][NextStitcher]_vars

---------------------------------------------------------------------------
(* Claims about the stitcher *)

Ends(seg) == {seg[1], seg[2]}

Vertices == UNION {Ends(segments[i]) : i \in DOMAIN segments}

\* the segments among those of I that end in v
Touching(I, v) == {i \in I : v \in Ends(segments[i])}

\* the input is k vertex-disjoint simple open paths: different vertices
\* are apart, no segment is given twice, no vertex has three segments, and
\* no segments form a cycle
DisjointOpenPaths ==
  /\ \A p, q \in Vertices : p # q => ~close_enough(p, q)
  /\ \A i, j \in DOMAIN segments : i # j => Ends(segments[i]) # Ends(segments[j])
  /\ \A v \in Vertices : Cardinality(Touching(DOMAIN segments, v)) <= 2
  /\ \A I \in SUBSET (DOMAIN segments) :
       I # {} => \E v \in Vertices : Cardinality(Touching(I, v)) = 1

\* the number of paths of such an input
PathCount == Cardinality(Vertices) - Len(segments)

\* the polyline walks segments of the input through different points
WalksInput(pl) ==
  /\ Len(pl) >= 2
  /\ \A a, b \in DOMAIN pl : a # b => pl[a] # pl[b]
  /\ \A a \in 1..(Len(pl) - 1) :
       \E i \in DOMAIN segments : Ends(segments[i]) = {pl[a], pl[a + 1]}

RECURSIVE TotalPoints(_)
TotalPoints(pls) == IF pls = <<>> THEN 0 ELSE Len(Head(pls)) + TotalPoints(Tail(pls))

\* C10 (SpecStitcher): k vertex-disjoint simple open paths, in any order
\* and orientation of the segments, are returned as exactly k polylines,
\* each listing the points of one path in connected order: a path of n
\* segments is one polyline of n + 1 points.
C10_PathsStitched ==
  (spc = "done" /\ DisjointOpenPaths)
    => /\ Len(result) = PathCount
       /\ \A k \in DOMAIN result : WalksInput(result[k])
       /\ \A i \in DOMAIN segments :
            \E k \in DOMAIN result : \E a \in 1..(Len(result[k]) - 1) :
              Ends(segments[i]) = {result[k][a], result[k][a + 1]}
       /\ TotalPoints(result) = Len(segments) + PathCount

\* an open path of 3 segments, given with its middle segment first, has
\* been stitched at both ends into one polyline of 4 points
C10_Witness ==
  /\ spc = "done" /\ DisjointOpenPaths
  /\ Len(segments) = 3 /\ Len(result) = 1 /\ Len(result[1]) = 4
  /\ result[1][1] \notin Ends(segments[1])
  /\ result[1][4] \notin Ends(segments[1])

---------------------------------------------------------------------------
(* group_contiguous_segments as a function of its argument *)

\* lines 379-426: the while loop and what follows it
RECURSIVE stitch_loop(_, _, _)
stitch_loop(remaining, current, closed) ==
  IF Len(remaining) = 0
    THEN IF Len(current) > 0 THEN Append(closed, current) ELSE closed
    ELSE LET r == scan(remaining, 1,
                       [current |-> current, remain |-> <<>>, extended |-> FALSE])
         IN IF ~r.extended
              THEN stitch_loop(remaining, <<>>, Append(closed, r.current))
              ELSE stitch_loop(r.remain, r.current, closed)

group_contiguous_segments(segs) ==
  IF Len(segs) <= 1 THEN segs ELSE stitch_loop(segs, <<>>, <<>>)

\* the run of the loop returns what the function returns
StitchRunIsFunction ==
  spc = "done" => result = group_contiguous_segments(segments)

Reverse(q) == [i \in DOMAIN q |-> q[Len(q) + 1 - i]]

\* the segments with those at positions i and i + 1 exchanged
Swap(segs, i) ==
  [k \in DOMAIN segs |-> IF k = i THEN segs[i + 1] ELSE IF k = i + 1 THEN segs[i] ELSE segs[k]]

\* how often the polyline x, in either direction, is among pls
Occurrences(pls, x) ==
  Cardinality({k \in DOMAIN pls : pls[k] = x \/ pls[k] = Reverse(x)})

\* the same polylines up to the direction of each and their order
SamePolylines(A, B) ==
  /\ Len(A) = Len(B)
  /\ \A k \in DOMAIN A : Occurrences(A, A[k]) = Occurrences(B, A[k])

\* the segments in every order that exchanges two neighbours, and reversed;
\* every permutation is a chain of such exchanges
Reorderings(segs) ==
  {Swap(segs, i) : i \in 1..(Len(segs) - 1)} \cup {Reverse(segs)}

\* C11 as stated (SpecStitcher): every segment list, stitched in any other
\* order of its segments, gives the same polylines up to direction.
C11_OrderInvariant ==
  spc = "done"
    => \A other \in Reorderings(segments) :
         SamePolylines(result, group_contiguous_segments(other))

\* C11 amended: a segment list that forms vertex-disjoint simple open
\* paths, stitched in any other order of its segments, gives the same
\* polylines up to direction.
C11_OrderInvariantOnPaths ==
  (spc = "done" /\ DisjointOpenPaths)
    => \A other \in Reorderings(segments) :
         SamePolylines(result, group_contiguous_segments(other))

\* an open path of 3 segments whose reversed list is stitched into the
\* same polyline in the other direction
C11_Witness ==
  /\ spc = "done" /\ DisjointOpenPaths
  /\ Len(segments) = 3 /\ Len(result) = 1
  /\ group_contiguous_segments(Reverse(segments)) = <<Reverse(result[1])>>
  /\ Reverse(result[1]) # result[1]

\* the first and the last point of a polyline
EndPoints(pl) == {pl[1], pl[Len(pl)]}

\* some end of the segment is within epsilon of an end of the polyline
Attaches(seg, pl) ==
  \E p \in Ends(seg) : \E q \in EndPoints(pl) : close_enough(p, q)

\* C12 (SpecStitcher): when a polyline is closed off no unconsumed segment
\* has an endpoint within epsilon of its first or last point, and in the
\* result no first or last point of a polyline is within epsilon of a first
\* or last point of another polyline.
C12_MaximalAtEnds ==
  /\ [][polylines' # polylines
          => /\ polylines' = Append(polylines, current_polyline)
             /\ \A i \in DOMAIN segments_remaining' :
                  ~Attaches(segments_remaining'[i], current_polyline)]_vars
  /\ [][(spc = "loop" /\ spc' = "done") => segments_remaining = <<>>]_vars
  /\ [](spc = "done"
          => \A k, l \in DOMAIN result :
               k # l => \A p \in EndPoints(result[k]) : \A q \in EndPoints(result[l]) :
                          ~close_enough(p, q))

\* a polyline that had been extended was closed off while a segment was
\* still unconsumed, and that segment became a second polyline
C12_Witness ==
  spc = "done" /\ Len(result) = 2 /\ Len(result[1]) = 3 /\ Len(result[2]) = 2

---------------------------------------------------------------------------
(* Toolpath: src/__init__.py, toolpath_from_polylines *)

\* off_x, off_y, off_z = 0, 0, 0.5 in units of 0.001
off_x == 0
off_y == 0
off_z == 500

\* the body of the for loop that takes the last point before the polyline
\* has been added
toolpath_step_stale_last(tp, polyline) ==
  IF Len(polyline) = 0
    THEN [raised |-> TRUE, toolpath |-> tp]
    ELSE LET first == polyline[1]
             above_first == Append(tp, <<first[1] + off_x, first[2] + off_y, first[3] + off_z>>)
             last == above_first[Len(above_first)]
         IN [raised |-> FALSE,
             toolpath |-> Append(above_first \o polyline,
                                 <<last[1] + off_x, last[2] + off_y, last[3] + off_z>>)]

\* lines 437-447, the body of the for loop; polyline[0] of an empty
\* polyline is an IndexError
toolpath_step(tp, polyline) ==
  IF Len(polyline) = 0
    THEN [raised |-> TRUE, toolpath |-> tp]
    ELSE LET first == polyline[1]
             along == Append(tp, <<first[1] + off_x, first[2] + off_y, first[3] + off_z>>)
                        \o polyline
             last == along[Len(along)]
         IN [raised |-> FALSE,
             toolpath |-> Append(along, <<last[1] + off_x, last[2] + off_y, last[3] + off_z>>)]

\* lines 437-447: one turn of the for loop
ToolpathStep ==
  /\ tp_pc = "loop"
  /\ tp_next <= Len(tp_polylines)
  /\ LET r == toolpath_step(toolpath, tp_polylines[tp_next])
     IN /\ toolpath' = r.toolpath
        /\ tp_pc' = IF r.raised THEN "raised" ELSE "loop"
  /\ tp_next' = tp_next + 1
  /\ UNCHANGED tp_polylines

\* line 449
ToolpathReturn ==
  /\ tp_pc = "loop"
  /\ tp_next > Len(tp_polylines)
  /\ tp_pc' = "done"
  /\ UNCHANGED <<tp_polylines, tp_next, toolpath>>

MaxPolylines == 2    \* polylines of an input

\* polylines of up to 2 points
ToolpathPolylines ==
  SeqsUpTo({<<0, 0, 0>>, <<1000, 0, 0>>, <<0, 0, 250>>}, 2)

InitToolpath ==
  /\ tp_polylines \in SeqsUpTo(ToolpathPolylines, MaxPolylines)
  /\ tp_next = 1
  /\ toolpath = <<>>
  /\ tp_pc = "loop"
  /\ fps = 1
  /\ InitBuilderIdle
  /\ InitCorrectorIdle
  /\ InitExportIdle
  /\ InitStitcherIdle
  /\ InitConverterIdle
  /\ InitRobotIdle

NextToolpath ==
  \/ ToolpathStep /\ UNCHANGED <<bvars, cvars, evars, svars, jvars, rvars>>
  \/ ToolpathReturn /\ UNCHANGED <<bvars, cvars, evars, svars, jvars, rvars>>

SpecToolpath == InitToolpath /\ [][NextToolpath]_vars

---------------------------------------------------------------------------
(* Claims about the toolpath *)

\* the point above p by the clearance (0, 0, 0.5)
Lifted(p) == <<p[1], p[2], p[3] + 500>>

\* the number of waypoints of the polylines before the k-th
RECURSIVE BlockStart(_, _)
BlockStart(pls, k) ==
  IF k <= 1 THEN 0 ELSE BlockStart(pls, k - 1) + Len(pls[k - 1]) + 2

\* C13 (SpecToolpath): for non-empty polylines the toolpath is, polyline
\* by polyline in input order, the first point lifted, the points in
\* order, and the polyline's own last point lifted; its length is the sum
\* of the numbers of points plus 2 each.
C13_ToolpathBlocks ==
  /\ tp_pc = "raised" => \E k \in DOMAIN tp_polylines : tp_polylines[k] = <<>>
  /\ tp_pc = "done"
       => /\ Len(toolpath) = BlockStart(tp_polylines, Len(tp_polylines) + 1)
          /\ \A k \in DOMAIN tp_polylines :
               LET pl == tp_polylines[k]
                   at == BlockStart(tp_polylines, k)
               IN /\ Len(pl) > 0
                  /\ toolpath[at + 1] = Lifted(pl[1])
                  /\ \A i \in DOMAIN pl : toolpath[at + 1 + i] = pl[i]
                  /\ toolpath[at + Len(pl) + 2] = Lifted(pl[Len(pl)])

\* two polylines with different first and last points were laid out
C13_Witness ==
  /\ tp_pc = "done" /\ Len(tp_polylines) = 2
  /\ Len(tp_polylines[1]) = 2 /\ tp_polylines[1][1] # tp_polylines[1][2]
  /\ Len(tp_polylines[2]) = 2 /\ tp_polylines[2][2] # tp_polylines[1][2]
  /\ Len(toolpath) = 8

---------------------------------------------------------------------------
(* pose_to_ur_joint_angles on a list of bones *)

\* lines 130-132: the dictionary of the orientations of a list of bones
RECURSIVE joint_angles_by_name(_)
joint_angles_by_name(bone_list) ==
  IF bone_list = <<>> THEN [n \in {} |-> <<>>]
  ELSE LET before == joint_angles_by_name(SubSeq(bone_list, 1, Len(bone_list) - 1))
           bone == bone_list[Len(bone_list)]
       IN [n \in DOMAIN before \cup {bone.name} |->
             IF n = bone.name THEN bone.orientation ELSE before[n]]

ConvertPose ==
  /\ jpc = "start"
  /\ LET r == pose_to_ur_joint_angles(joint_angles_by_name(pose_bones))
     IN /\ joint_angles' = r.angles
        /\ jpc' = IF r.raised THEN "raised" ELSE "done"
  /\ UNCHANGED pose_bones

\* the orders in which an armature lists its bones
BoneOrders ==
  {<<"Base", "Shoulder", "Elbow", "Wrist1", "Wrist2", "Wrist3", "Tool">>,
   <<"Tool", "Wrist3", "Wrist2", "Wrist1", "Elbow", "Shoulder", "Base">>,
   <<"Wrist1", "Base", "Tool", "Wrist3", "Elbow", "Wrist2", "Shoulder">>}

\* the bones an armature has: the six joints but one, with or without Tool
BoneSets ==
  {AllJoints, AllJoints \cup {"Tool"}}
    \cup {AllJoints \ {n} : n \in AllJoints}
    \cup {(AllJoints \cup {"Tool"}) \ {n} : n \in AllJoints}

\* the bones of present in the order given, the bone at position i of the
\* order turned by (100 i + v, 200 i + 7 v, 300 i + 13 v)
BoneList(order, present, v) ==
  LET all == [i \in DOMAIN order |->
                [name |-> order[i],
                 orientation |-> <<100 * i + v, 200 * i + 7 * v, 300 * i + 13 * v>>]]
  IN SelectSeq(all, LAMBDA b : b.name \in present)

InitConverter ==
  /\ pose_bones \in {BoneList(order, present, v) :
                       order \in BoneOrders, present \in BoneSets, v \in {0, 1, 2}}
  /\ joint_angles = <<>>
  /\ jpc = "start"
  /\ fps = 1
  /\ InitBuilderIdle
  /\ InitCorrectorIdle
  /\ InitExportIdle
  /\ InitStitcherIdle
  /\ InitToolpathIdle
  /\ InitRobotIdle

NextConverter == ConvertPose /\ UNCHANGED <<bvars, cvars, evars, svars, tvars, rvars>>

SpecConverter == InitConverter /\ [][NextConverter]_vars

---------------------------------------------------------------------------
(* Claims about the converter *)

BoneNames == {pose_bones[i].name : i \in DOMAIN pose_bones}

\* the orientation of the bone called n
OrientationOf(n) ==
  pose_bones[CHOOSE i \in DOMAIN pose_bones : pose_bones[i].name = n].orientation

\* the configured axis (1 = X, 2 = Y, 3 = Z), sign and offset of the six
\* joints in the order Base, Shoulder, Elbow, Wrist1, Wrist2, Wrist3
ConfiguredAxis == <<3, 2, 2, 2, 3, 2>>
ConfiguredSign == <<1, -1, -1, -1, -1, -1>>
ConfiguredOffset == <<0, -1500, 0, -1500, 0, 0>>
JointOrder == <<"Base", "Shoulder", "Elbow", "Wrist1", "Wrist2", "Wrist3">>

\* C14 (SpecConverter): a sample with all six joint names, in any order and
\* with extra names, is converted to exactly 6 angles in the fixed order,
\* each sign * axis component + offset; a sample that misses one of the six
\* names raises and returns no vector.
C14_ConverterTotalOrRaises ==
  jpc # "start"
    => IF \A i \in 1..6 : JointOrder[i] \in BoneNames
         THEN /\ jpc = "done"
              /\ Len(joint_angles) = 6
              /\ \A i \in 1..6 :
                   joint_angles[i] =
                     ConfiguredSign[i] * OrientationOf(JointOrder[i])[ConfiguredAxis[i]]
                       + ConfiguredOffset[i]
         ELSE jpc = "raised" /\ joint_angles = <<>>

\* a sample that lists an extra bone first and the joints in reverse order
\* was converted
C14_Witness ==
  /\ jpc = "done" /\ Len(pose_bones) = 7
  /\ pose_bones[1].name = "Tool" /\ pose_bones[7].name = "Base"
  /\ joint_angles[1] = OrientationOf("Base")[3]

---------------------------------------------------------------------------
(* Claims about the frame loop of the export *)

\* C15 (SpecExport): joints 1..5 of every frame of the trace are what the
\* converter returned; joint 0 is the converter's angle, or that angle
\* shifted by 2 pi when its speed against the corrected joint 0 of the
\* frame before is not under the limit; an overspeed error comes from the
\* speed of joint 0 alone.
C15_OnlyFirstJointCorrected ==
  /\ \A n \in DOMAIN frame_angles :
       /\ \A j \in 2..6 : frame_angles[n][j] = converted[n][j]
       /\ frame_angles[n][1] \in
            {converted[n][1], converted[n][1] - 2 * Pi, converted[n][1] + 2 * Pi}
       /\ frame_angles[n][1] # converted[n][1]
            => /\ n > 1
               /\ Abs(converted[n][1] - frame_angles[n - 1][1]) * fps >= SpeedLimit
       /\ (n > 1 /\ Abs(converted[n][1] - frame_angles[n - 1][1]) * fps < SpeedLimit)
            => frame_angles[n][1] = converted[n][1]
  /\ error = "Over speed limit"
       => /\ Len(converted) = Len(frame_angles) + 1
          /\ Len(frame_angles) >= 1
          /\ Abs(converted[Len(converted)][1] - frame_angles[Len(frame_angles)][1]) * fps
               >= SpeedLimit

\* joints 1..5 moved faster than the limit between two frames and were
\* passed on, and a third frame was corrected against a joint 0 angle that
\* had itself been corrected
C15_Witness ==
  /\ Len(frame_angles) = 3
  /\ Abs(frame_angles[2][2] - frame_angles[1][2]) * fps > SpeedLimit
  /\ frame_angles[2][1] # converted[2][1]
  /\ frame_angles[3][1] # converted[3][1]
  /\ Abs(converted[3][1] - converted[2][1]) * fps < SpeedLimit

---------------------------------------------------------------------------
(* Termination of the stitcher *)

\* the segment lists of the runs checked for termination: a point, a point
\* within Epsilon of it, and a point further away
FairPoints == {<<0, 0, 0>>, <<5, 0, 0>>, <<1000, 0, 0>>}

FairSegments == {<<p, q>> : p, q \in FairPoints} \ {<<p, p>> : p \in FairPoints}

InitStitcherFair ==
  /\ segments \in SeqsUpTo(FairSegments, MaxSegments)
  /\ segments_remaining = <<>>
  /\ current_polyline = <<>>
  /\ polylines = <<>>
  /\ result = <<>>
  /\ spc = "start"
  /\ fps = 1
  /\ InitBuilderIdle
  /\ InitCorrectorIdle
  /\ InitExportIdle
  /\ InitToolpathIdle
  /\ InitConverterIdle
  /\ InitRobotIdle

\* the call is run to its end: a pass or the return is always taken
SpecStitcherFair ==
  InitStitcherFair /\ [][NextStitcher]_vars /\ WF_vars(NextStitcher)

\* C16 (SpecStitcherFair): group_contiguous_segments returns for every
\* segment list; every pass consumes a segment or closes the non-empty
\* current polyline, the pass after a closing pass consumes a segment, and
\* the loop is left with no segment remaining.
C16_Terminates ==
  /\ <>(spc = "done")
  /\ [][(spc = "loop" /\ spc' = "loop")
          => \/ Len(segments_remaining') < Len(segments_remaining)
             \/ /\ current_polyline # <<>>
                /\ polylines' = Append(polylines, current_polyline)
                /\ current_polyline' = <<>>
                /\ segments_remaining' = segments_remaining]_vars
  /\ [][(spc = "loop" /\ spc' = "loop" /\ current_polyline = <<>>)
          => Len(segments_remaining') < Len(segments_remaining)]_vars
  /\ [][(spc = "loop" /\ spc' = "done") => segments_remaining = <<>>]_vars

\* the loop ended after a pass had closed a polyline off and a later pass
\* had seeded the next one
C16_Witness ==
  spc = "done" /\ Len(segments) = 3 /\ Len(polylines) >= 1 /\ Len(result) = 2

---------------------------------------------------------------------------
(* Conservation of segments by the stitcher *)

\* the positions of the consecutive point pairs of a list of polylines
PairPositions(pls) ==
  UNION {{<<k, a>> : a \in 1..(Len(pls[k]) - 1)} : k \in DOMAIN pls}

\* how often the unordered pair u is a consecutive pair of the polylines
PairCount(pls, u) ==
  Cardinality({ka \in PairPositions(pls) :
                 {pls[ka[1]][ka[2]], pls[ka[1]][ka[2] + 1]} = u})

\* how often the unordered pair u is a segment of the list
SegmentCount(segs, u) == Cardinality({i \in DOMAIN segs : Ends(segs[i]) = u})

\* points of the input that match are the same point
ExactMatching == \A p, q \in Vertices : close_enough(p, q) => p = q

\* the polylines closed so far, with the open one if there is one
Stitched ==
  IF current_polyline = <<>> THEN polylines ELSE Append(polylines, current_polyline)

\* C17 (SpecStitcher): every input segment is consumed exactly once. All
\* through the loop the segments still remaining and the consecutive pairs
\* already stitched count up to the input; on return the total number of
\* points is the number of input segments plus the number of polylines,
\* for every input (empty, one segment, branching, duplicates); and where
\* matching points are equal, the consecutive pairs of the returned
\* polylines are the input segments as unordered pairs, with multiplicity.
C17_SegmentsConserved ==
  /\ spc = "loop"
       => /\ Cardinality(PairPositions(Stitched)) + Len(segments_remaining)
               = Len(segments)
          /\ ExactMatching
               => \A u \in {Ends(segments[i]) : i \in DOMAIN segments} :
                    PairCount(Stitched, u) + SegmentCount(segments_remaining, u)
                      = SegmentCount(segments, u)
  /\ spc = "done"
       => /\ TotalPoints(result) = Len(segments) + Len(result)
          /\ Cardinality(PairPositions(result)) = Len(segments)
          /\ ExactMatching
               => \A u \in {Ends(segments[i]) : i \in DOMAIN segments} :
                    PairCount(result, u) = SegmentCount(segments, u)

\* three segments that meet in one corner, one of them given twice in
\* opposite directions, have been returned
C17_Witness ==
  /\ spc = "done"
  /\ ExactMatching
  /\ Len(segments) = 3
  /\ segments[1] = <<segments[2][2], segments[2][1]>>
  /\ \E v \in Vertices : Cardinality(Touching(DOMAIN segments, v)) = 3
  /\ Len(result) >= 1

---------------------------------------------------------------------------
(* The transport: src/__init__.py, class Robot *)

MaxSends == 5

\* the texts handed to send
Data == {"program 1", "program 2", "program 3"}

evars_rest == <<pc, has_error, loop, frame_index, frame_end, frame_angles,
                last_joint_angles, converted, error>>

\* lines 76-81: one call of send on the Robot object; the host is
\* reachable or not at the time of the call
RobotSend ==
  /\ sends < MaxSends
  /\ \E reachable \in BOOLEAN, data \in Data :
       LET r == send([sock |-> sock, sent |-> wire, err |-> "none"], data, reachable)
       IN /\ sock' = r.sock
          /\ wire' = r.sent
          /\ send_raised' = r.err
          /\ connect_attempts' = connect_attempts + (IF sock = "None" THEN 1 ELSE 0)
          /\ successful_connects' =
               successful_connects + (IF sock = "None" /\ reachable THEN 1 ELSE 0)
  /\ sends' = sends + 1

InitRobot ==
  /\ InitExportIdle
  /\ InitRobotIdle
  /\ fps = 1
  /\ InitBuilderIdle
  /\ InitCorrectorIdle
  /\ InitStitcherIdle
  /\ InitToolpathIdle
  /\ InitConverterIdle

NextRobot ==
  RobotSend /\ UNCHANGED <<bvars, cvars, evars_rest, svars, tvars, jvars>>

SpecRobot == InitRobot /\ [][NextRobot]_vars

\* C18 (SpecRobot): for one Robot object and any sequence of send calls,
\* bytes are written only on a socket whose connect succeeded, a send in
\* the disconnected state always attempts a connect first, and once a
\* connect has succeeded no later send connects again.
C18_LazyConnect ==
  /\ [][sends' = sends + 1
          => /\ wire' # wire => (sock' = "connected" /\ successful_connects' = 1)
             /\ sock # "connected" => connect_attempts' = connect_attempts + 1
             /\ sock = "connected" => connect_attempts' = connect_attempts]_vars
  /\ [](successful_connects <= 1)

\* the parts of C18 that the code keeps: bytes only on a connected socket,
\* at most one successful connect, none after the first
C18_WritesOnlyWhenConnected ==
  /\ [][sends' = sends + 1
          => /\ wire' # wire => (sock' = "connected" /\ successful_connects' = 1)
             /\ sock = "connected" => connect_attempts' = connect_attempts]_vars
  /\ [](successful_connects <= 1)

---------------------------------------------------------------------------
(* The two pipelines that send a program: the animation export and the
   single-pose move, src/__init__.py, URxMoveToPoseOperator.execute *)

\* Robot.movej, lines 84-87: the script of a single move
Robot_movej(angles) == end(movej(function(URScript), angles))

\* lines 300-310: the pose is converted, and a new Robot builds the move
\* and sends it
MoveToPose ==
  /\ pc = "moveto"
  /\ \E bones \in Poses, reachable \in BOOLEAN :
       LET p == pose_to_ur_joint_angles(bones)
           s == Robot_movej(p.angles)
           r == send(Robot, s.text, reachable)
       IN IF p.raised
            THEN Raise("KeyError") /\ UNCHANGED <<text, indent_level, sock, wire>>
          ELSE IF s.err # "none"
            THEN /\ text' = s.text
                 /\ indent_level' = s.indent_level
                 /\ Raise(s.err)
                 /\ UNCHANGED <<sock, wire>>
          ELSE /\ text' = s.text
               /\ indent_level' = s.indent_level
               /\ sock' = r.sock
               /\ wire' = r.sent
               /\ IF r.err # "none" THEN Raise(r.err)
                  ELSE pc' = "moved" /\ UNCHANGED error
  /\ UNCHANGED <<has_error, loop, frame_index, frame_end, frame_angles,
                 last_joint_angles, converted, fps>>

InitMoveToPose ==
  /\ pc = "moveto"
  /\ has_error = FALSE
  /\ loop = FALSE
  /\ fps \in FpsValues
  /\ frame_index = 1
  /\ frame_end = 1
  /\ frame_angles = <<>>
  /\ last_joint_angles = <<>>
  /\ converted = <<>>
  /\ error = "none"
  /\ sock = "None"
  /\ wire = <<>>
  /\ InitBuilderIdle
  /\ InitCorrectorIdle
  /\ InitStitcherIdle
  /\ InitToolpathIdle
  /\ InitConverterIdle
  /\ InitRobotIdle

InitPipelines == InitExport \/ InitMoveToPose

NextPipelines ==
  \/ ExportBegin /\ UNCHANGED <<op, raised, arg_len, cvars_rest, svars, nvars>>
  \/ ExportFrame /\ UNCHANGED <<op, raised, arg_len, cvars_rest, svars, nvars>>
  \/ ExportBuild /\ UNCHANGED <<op, raised, arg_len, cvars_rest, svars, nvars>>
  \/ ExportSend /\ UNCHANGED <<op, raised, arg_len, cvars_rest, svars, nvars>>
  \/ MoveToPose /\ UNCHANGED <<op, raised, arg_len, cvars_rest, svars, nvars>>

SpecPipelines == InitPipelines /\ [][NextPipelines]_vars

---------------------------------------------------------------------------
(* Claims about the programs that are sent *)

\* the positions of the newlines of a text, in order
Newlines(t) == SelectSeq([i \in 1..Len(t) |-> i], LAMBDA i : t[i] = NL)

\* the lines of a text without their newlines, in order
Lines(t) ==
  LET nl == Newlines(t)
  IN [k \in DOMAIN nl |-> SubSeq(t, (IF k = 1 THEN 0 ELSE nl[k - 1]) + 1, nl[k] - 1)]

\* the statement keywords of the lines of a text, in order
Keywords(t) == LET ls == Lines(t) IN [k \in DOMAIN ls |-> Keyword(ls[k])]

Headers == {"def", "while"}

\* the number of blocks open after the first k lines, kw being the keywords
Depth(kw, k) ==
  Cardinality({j \in 1..k : kw[j] \in Headers})
    - Cardinality({j \in 1..k : kw[j] = "end"})

\* the end lines after header k that bring the depth back to where it was
\* before the header, with no line between that does
Matches(kw, k) ==
  {m \in (k + 1)..Len(kw) :
     /\ kw[m] = "end"
     /\ Depth(kw, m) = Depth(kw, k - 1)
     /\ \A j \in k..(m - 1) : Depth(kw, j) > Depth(kw, k - 1)}

LinesOf(kw, word) == {k \in DOMAIN kw : kw[k] = word}

\* the arrays of the servoj statements, in the order of the text
ServoArrays(t) ==
  LET servo == SelectSeq(Lines(t), LAMBDA l : Keyword(l) = "servoj")
  IN [i \in DOMAIN servo |-> servo[i][Indent(servo[i]) + 1][2]]

\* the text has been handed to send
Handed ==
  \/ pc = "built"
  \/ wire # <<>>
  \/ error \in {"connect failed", "send failed"}

\* C19 (SpecPipelines): every text handed to the transport, by the export
\* with the loop flag on or off and by the single-pose move, is
\* block-balanced. The builder depth is 0, every function or while header
\* has exactly one matching later end and every end closes a header, the
\* while block of a looping export is closed before the function block,
\* and the servoj statements are those of the frames, one per frame in
\* frame order, between the function header and its end.
C19_BlockBalanced ==
  Handed
    => LET kw == Keywords(text)
           n == Len(kw)
       IN /\ indent_level = 0
          /\ wire # <<>> => wire = <<text>>
          /\ \A k \in 0..n : Depth(kw, k) >= 0
          /\ Depth(kw, n) = 0
          /\ \A k \in 1..n : kw[k] \in Headers => Cardinality(Matches(kw, k)) = 1
          /\ \A m \in LinesOf(kw, "end") :
               Cardinality({k \in 1..n : kw[k] \in Headers /\ m \in Matches(kw, k)}) = 1
          /\ LinesOf(kw, "def") = {1}
          /\ Matches(kw, 1) = {n}
          /\ Cardinality(LinesOf(kw, "while")) = (IF loop THEN 1 ELSE 0)
          /\ \A w \in LinesOf(kw, "while") :
               \A m \in Matches(kw, w) : 1 < w /\ m < n
          /\ ServoArrays(text)
               = [i \in DOMAIN frame_angles |-> list_to_array(frame_angles[i])]
          /\ \A k \in LinesOf(kw, "servoj") : 1 < k /\ k < n
          /\ \A w \in LinesOf(kw, "while") :
               \A m \in Matches(kw, w) :
                 \A k \in LinesOf(kw, "servoj") : w < k /\ k < m

\* a looping export of three different frames has been sent
C19_Witness ==
  /\ pc = "finished"
  /\ loop
  /\ wire = <<text>>
  /\ Len(frame_angles) = 3
  /\ frame_angles[1] # frame_angles[2]
  /\ frame_angles[2] # frame_angles[3]

---------------------------------------------------------------------------
(* The shape of the text of the builder, checked under SpecBuilder *)

BuilderOps ==
  {"function", "end", "while_loop", "set_tool_digital_out", "servoj", "movej"}

\* C20 (SpecBuilder): the builder is push-only with depth-derived
\* indentation. The text is empty or ends with a newline; every successful
\* operation appends exactly one line, of tabs and one statement, and
\* leaves the earlier text as it was, and a refused operation leaves all
\* of it; every line has as many tabs as the depth at the time it was
\* emitted, which for a function or while header is the depth before the
\* increment and for an end line the depth after the decrement.
C20_PushOnlyIndented ==
  /\ [](/\ text = <<>> \/ text[Len(text)] = NL
        /\ LET ls == Lines(text)
               kw == Keywords(text)
           IN \A k \in DOMAIN ls :
                /\ Len(ls[k]) = Indent(ls[k]) + 1
                /\ Indent(ls[k])
                     = (IF kw[k] = "end" THEN Depth(kw, k) ELSE Depth(kw, k - 1)))
  /\ [][(op' \in BuilderOps /\ raised' = "none")
          => /\ AppendsOneLine
             /\ Len(text') = Len(text) + Indent(LastLine(text')) + 2
             /\ Indent(LastLine(text'))
                  = (IF op' \in {"function", "while_loop"}
                       THEN indent_level ELSE indent_level')
             /\ op' \in {"function", "while_loop"} => indent_level' = indent_level + 1]_vars
  /\ [][raised' # "none" => text' = text]_vars

\* a statement was emitted at depth 2 and the inner block was then closed
\* by an end line at depth 1
C20_Witness ==
  /\ op = "end" /\ raised = "none"
  /\ LineCount(text) = 4
  /\ Indent(Line(text, 2)) = 1
  /\ Keyword(Line(text, 3)) = "servoj"
  /\ Indent(Line(text, 3)) = 2
  /\ Indent(Line(text, 4)) = 1
  /\ indent_level = 1

---------------------------------------------------------------------------
(* The mesh pipeline: src/__init__.py, mesh_to_toolpath *)

\* lines 467-468: the polylines the stitcher returned are handed to
\* toolpath_from_polylines
MeshToToolpath ==
  /\ spc = "done"
  /\ tp_pc = "idle"
  /\ tp_polylines' = result
  /\ tp_next' = 1
  /\ toolpath' = <<>>
  /\ tp_pc' = "loop"

NextMesh ==
  \/ StitchBegin /\ UNCHANGED <<bvars, cvars, evars, nvars>>
  \/ StitchPass /\ UNCHANGED <<bvars, cvars, evars, nvars>>
  \/ StitchReturn /\ UNCHANGED <<bvars, cvars, evars, nvars>>
  \/ MeshToToolpath /\ UNCHANGED <<bvars, cvars, evars, svars, jvars, rvars>>
  \/ ToolpathStep /\ UNCHANGED <<bvars, cvars, evars, svars, jvars, rvars>>
  \/ ToolpathReturn /\ UNCHANGED <<bvars, cvars, evars, svars, jvars, rvars>>

SpecMesh == InitStitcher /\ [][NextMesh]_vars

\* C21 (SpecMesh): every polyline that group_contiguous_segments closes
\* off or returns has at least 2 points, because a pass that starts with
\* an empty polyline seeds it with both points of a segment; so
\* toolpath_from_polylines, applied to what the stitcher returned, never
\* fails on an empty polyline and returns a toolpath, for every input
\* segment list including the empty one.
C21_NoEmptyPolyline ==
  /\ [](/\ \A k \in DOMAIN polylines : Len(polylines[k]) >= 2
        /\ spc = "loop" => (current_polyline = <<>> \/ Len(current_polyline) >= 2)
        /\ spc = "done" => \A k \in DOMAIN result : Len(result[k]) >= 2
        /\ tp_pc # "raised"
        /\ tp_pc \in {"loop", "done"} => tp_polylines = result
        /\ tp_pc = "done"
             => Len(toolpath) = TotalPoints(result) + 2 * Len(result))
  /\ [][(spc = "loop" /\ spc' = "loop" /\ current_polyline = <<>>)
          => Len(current_polyline') >= 2]_vars

\* three segments were returned as two polylines, the second one seeded
\* after the first had been closed off, and their toolpath was built
C21_Witness ==
  /\ tp_pc = "done"
  /\ Len(segments) = 3
  /\ Len(result) = 2
  /\ Len(toolpath) = 9

=============================================================================
